---- MODULE Spec2Model ----
(***************************************************************************)
(* AIOKafkaConsumer (aiokafka/consumer.py) as a state machine.             *)
(*                                                                         *)
(* The consumer object, its SubscriptionState and the three collaborators  *)
(* (AIOKafkaClient, GroupCoordinator, Fetcher) are the state.  Every       *)
(* coroutine of the consumer is cut at its suspension points (yield from): *)
(* one action per synchronous stretch of code between two suspensions.     *)
(* Several tasks of the one event loop may be inside a coroutine at once;  *)
(* the background work of the collaborators (rebalance delivery, the fetch *)
(* pump, the clock) runs only between those stretches.                     *)
(***************************************************************************)
EXTENDS Integers, Sequences, FiniteSets, TLC

(***************************************************************************)
(* Bounds of the model.                                                    *)
(***************************************************************************)
MaxOffset == 2      \* offsets range over 0..MaxOffset
MaxTimeout == 2     \* getmany's timeout_ms, in clock ticks, 0..MaxTimeout
MaxPoll == 2        \* consumer_timeout (the poll interval), in ticks, 1..MaxPoll

(***************************************************************************)
(* Values.                                                                 *)
(***************************************************************************)
\* Python's None and an optional integer: <<>> is None, <<k>> is the int k.
None == <<>>
Some(k) == <<k>>
Val(o) == o[1]

Topics == {"a", "b"}

\* kafka.common.TopicPartition(topic, partition)
TopicPartition(topic, p_id) == [topic |-> topic, partition |-> p_id]

\* Cluster metadata: the partition ids of each topic.
partitions_for_topic(topic) == IF topic = "a" THEN {0, 1} ELSE {0}

TPs == UNION { { TopicPartition(t, i) : i \in partitions_for_topic(t) } : t \in Topics }

Offsets == 0 .. MaxOffset
OptOffsets == {None} \cup { Some(k) : k \in Offsets }

Tasks == {"t1", "t2"}

\* The buffer buf of the Fetcher without the records of the partitions S.
Drop(buf, S) == [tp \in DOMAIN buf \ S |-> buf[tp]]

\* A fresh, unresolved PartitionState.
FreshState == [position |-> None, committed |-> None, highwater |-> None]

\* The task record of a task that is inside no coroutine.
Idle == [op |-> "idle", pc |-> "idle"]

VARIABLES
    \* SubscriptionState (self._subscription)
    mode,               \* UNSUBSCRIBED | AUTO_TOPICS | AUTO_PATTERN | USER_ASSIGNED
    subscription,       \* the subscribed topics (AUTO_TOPICS)
    assignment,         \* TopicPartition -> PartitionState, the assigned partitions
    needs_partition_assignment,
    \* AIOKafkaClient (self._client)
    client_topics,      \* the last set_topics() list
    \* AIOKafkaConsumer
    group_id,           \* None or the group's name (configuration)
    auto_offset_reset,  \* "earliest" | "latest" | "none" (configuration)
    consumer_timeout,   \* self._consumer_timeout, in ticks (configuration)
    topics_arg,         \* self._topics, the constructor's *topics
    api_version,        \* self._api_version
    fetcher,            \* self._fetcher is not None
    coordinator,        \* self._coordinator is not None
    closed,             \* self._closed
    \* Collaborators and the world around them
    closes,             \* per collaborator: close() calls invoked and completed
    constructed,        \* how many Fetchers / GroupCoordinators were constructed
    buffered,           \* Fetcher: partition -> arrival time of its buffered record
    remote_committed,   \* the group's committed offsets on the broker
    now,                \* the loop's clock, in ticks
    \* Tasks
    task,               \* per task: the coroutine it is in and its locals
    last                \* the step just taken: the call, its outcome, the collaborator calls made

sub_vars == <<mode, subscription, assignment, needs_partition_assignment>>
cfg_vars == <<group_id, auto_offset_reset, consumer_timeout, topics_arg>>
life_vars == <<api_version, fetcher, coordinator, closed, closes, constructed>>
world_vars == <<buffered, remote_committed, now>>
vars == <<sub_vars, client_topics, cfg_vars, life_vars, world_vars, task, last>>

\* The record of a step: which coroutine (or background event) ran, on which
\* task, from where ("call": its entry, else the suspension it resumed from),
\* how the step ended ("ok": returned, "suspended", or the exception raised),
\* what it returned and which collaborator methods it invoked.
Step(op, t, at, res, val, calls) ==
    [op |-> op, task |-> t, at |-> at, res |-> res, val |-> val, calls |-> calls]

(***************************************************************************)
(* SubscriptionState                                                       *)
(***************************************************************************)
assigned_partitions == DOMAIN assignment
is_assigned(tp) == tp \in DOMAIN assignment
missing_fetch_positions == { tp \in DOMAIN assignment : assignment[tp].position = None }
has_all_fetch_positions == missing_fetch_positions = {}

\* all_consumed_offsets(): the position of every partition that has one.
all_consumed_offsets ==
    [ tp \in { p \in DOMAIN assignment : assignment[p].position # None } |->
        Val(assignment[tp].position) ]

\* assign_from_user(partitions): legal unless a topic or pattern subscription is active.
assign_from_user_ok == mode \notin {"AUTO_TOPICS", "AUTO_PATTERN"}
\* subscribe(...): legal unless partitions were assigned by the user.
subscribe_ok == mode # "USER_ASSIGNED"

\* subscribe(topics=...): the topics replace any earlier interest; the partition
\* map is emptied until the group delivers an assignment.
SubscribeTopicsState(topics) ==
    /\ mode' = "AUTO_TOPICS"
    /\ subscription' = topics
    /\ assignment' = << >>
    /\ needs_partition_assignment' = TRUE

\* subscribe(pattern=...)
SubscribePatternState ==
    /\ mode' = "AUTO_PATTERN"
    /\ subscription' = {}
    /\ assignment' = << >>
    /\ UNCHANGED needs_partition_assignment

\* group_subscription(): the topics the group protocol asks metadata for.
group_subscription(topics) == topics

\* assign_from_user(partitions): the whole map is replaced by fresh states.
AssignFromUserState(partitions) ==
    /\ mode' = "USER_ASSIGNED"
    /\ subscription' = {}
    /\ assignment' = [tp \in partitions |-> FreshState]
    /\ needs_partition_assignment' = FALSE

\* unsubscribe()
UnsubscribeState ==
    /\ mode' = "UNSUBSCRIBED"
    /\ subscription' = {}
    /\ assignment' = << >>
    /\ needs_partition_assignment' = FALSE

\* assign_from_subscribed(partitions): the rebalance protocol delivers an assignment.
AssignFromSubscribedState(partitions) ==
    /\ assignment' = [tp \in partitions |-> FreshState]
    /\ needs_partition_assignment' = FALSE
    /\ UNCHANGED <<mode, subscription>>

\* The partitions a rebalance may deliver: those of the subscribed topics
\* (of any topic under a pattern subscription).
Assignable ==
    IF mode = "AUTO_TOPICS" THEN { tp \in TPs : tp.topic \in subscription }
    ELSE IF mode = "AUTO_PATTERN" THEN TPs
    ELSE {}

(***************************************************************************)
(* AIOKafkaConsumer: the synchronous calls                                 *)
(***************************************************************************)

\* assign() with its two statements swapped: the client's topics are set before
\* the SubscriptionState has accepted the assignment.
assign_topics_first(t, partitions) ==
    /\ task[t] = Idle
    /\ client_topics' = { tp.topic : tp \in partitions }
    /\ IF assign_from_user_ok
       THEN /\ AssignFromUserState(partitions)
            /\ buffered' = << >>
            /\ last' = Step("assign", t, "call", "ok", partitions, {"client.set_topics"})
       ELSE /\ UNCHANGED <<sub_vars, buffered>>
            /\ last' = Step("assign", t, "call", "IllegalStateError", partitions,
                            {"client.set_topics"})
    /\ UNCHANGED <<cfg_vars, life_vars, remote_committed, now, task>>

\* assign() that sets the client's topics and forgets the SubscriptionState.
assign_topics_only(t, partitions) ==
    /\ task[t] = Idle
    /\ client_topics' = { tp.topic : tp \in partitions }
    /\ last' = Step("assign", t, "call",
                    IF assign_from_user_ok THEN "ok" ELSE "IllegalStateError",
                    partitions, {"client.set_topics"})
    /\ UNCHANGED <<sub_vars, buffered, cfg_vars, life_vars, remote_committed, now, task>>

\* assign(partitions), consumer.py 207-231.  The step record keeps the partitions.
assign(t, partitions) ==
    /\ task[t] = Idle
    /\ IF assign_from_user_ok
       THEN /\ AssignFromUserState(partitions)
            /\ client_topics' = { tp.topic : tp \in partitions }
            /\ buffered' = << >>
            /\ last' = Step("assign", t, "call", "ok", partitions, {"client.set_topics"})
       ELSE /\ UNCHANGED <<sub_vars, client_topics, buffered>>
            /\ last' = Step("assign", t, "call", "IllegalStateError", partitions, {})
    /\ UNCHANGED <<cfg_vars, life_vars, remote_committed, now, task>>

\* subscribe(topics, pattern), consumer.py 434-484.  kind is "topics",
\* "pattern" or "nothing" (neither argument given); the step record keeps it.
subscribe(t, kind, topics) ==
    /\ task[t] = Idle
    /\ IF ~subscribe_ok
       THEN /\ UNCHANGED <<sub_vars, client_topics, buffered>>
            /\ last' = Step("subscribe", t, "call", "IllegalStateError", kind, {})
       ELSE IF kind = "nothing"
       THEN /\ UNCHANGED <<sub_vars, client_topics, buffered>>
            /\ last' = Step("subscribe", t, "call", "AssertionError", kind, {})
       ELSE IF kind = "pattern"
       THEN /\ SubscribePatternState
            /\ client_topics' = {}
            /\ buffered' = << >>
            /\ last' = Step("subscribe", t, "call", "ok", kind, {"client.set_topics"})
       ELSE /\ SubscribeTopicsState(topics)
            /\ client_topics' = group_subscription(topics)
            /\ buffered' = << >>
            /\ last' = Step("subscribe", t, "call", "ok", kind, {"client.set_topics"})
    /\ UNCHANGED <<cfg_vars, life_vars, remote_committed, now, task>>

\* unsubscribe() without its set_topics([]).
unsubscribe_keeps_topics(t) ==
    /\ task[t] = Idle
    /\ UnsubscribeState
    /\ buffered' = << >>
    /\ last' = Step("unsubscribe", t, "call", "ok", None, {})
    /\ UNCHANGED <<client_topics, cfg_vars, life_vars, remote_committed, now, task>>

\* unsubscribe(), consumer.py 494-499
unsubscribe(t) ==
    /\ task[t] = Idle
    /\ UnsubscribeState
    /\ client_topics' = {}
    /\ buffered' = << >>
    /\ last' = Step("unsubscribe", t, "call", "ok", None, {"client.set_topics"})
    /\ UNCHANGED <<cfg_vars, life_vars, remote_committed, now, task>>

\* A seek that also records the offset as the committed one.
PartitionSeek_committing(tp, offset) ==
    /\ assignment' = [assignment EXCEPT ![tp].position = Some(offset),
                                        ![tp].committed = Some(offset)]
    /\ buffered' = Drop(buffered, {tp})

\* TopicPartitionState.seek(offset): the position is overwritten, and the
\* Fetcher has no use any more for what it buffered from the old position.
PartitionSeek(tp, offset) ==
    /\ assignment' = [assignment EXCEPT ![tp].position = Some(offset)]
    /\ buffered' = Drop(buffered, {tp})

\* seek() that checks its arguments and forgets the seek itself.
seek_checks_only(t, tp, offset) ==
    /\ task[t] = Idle
    /\ IF offset >= 0 /\ tp \in assigned_partitions
       THEN /\ UNCHANGED <<assignment, buffered>>
            /\ last' = Step("seek", t, "call", "ok", <<tp, offset>>, {})
       ELSE /\ UNCHANGED <<assignment, buffered>>
            /\ last' = Step("seek", t, "call", "AssertionError", <<tp, offset>>, {})
    /\ UNCHANGED <<mode, subscription, needs_partition_assignment, client_topics,
                   cfg_vars, life_vars, remote_committed, now, task>>

\* seek() without its assertion on the offset.
seek_any_offset(t, tp, offset) ==
    /\ task[t] = Idle
    /\ IF tp \in assigned_partitions
       THEN /\ PartitionSeek(tp, offset)
            /\ last' = Step("seek", t, "call", "ok", <<tp, offset>>, {})
       ELSE /\ UNCHANGED <<assignment, buffered>>
            /\ last' = Step("seek", t, "call", "AssertionError", <<tp, offset>>, {})
    /\ UNCHANGED <<mode, subscription, needs_partition_assignment, client_topics,
                   cfg_vars, life_vars, remote_committed, now, task>>

\* seek(partition, offset), consumer.py 386-407
seek(t, tp, offset) ==
    /\ task[t] = Idle
    /\ IF offset >= 0 /\ tp \in assigned_partitions
       THEN /\ PartitionSeek(tp, offset)
            /\ last' = Step("seek", t, "call", "ok", <<tp, offset>>, {})
       ELSE /\ UNCHANGED <<assignment, buffered>>
            /\ last' = Step("seek", t, "call", "AssertionError", <<tp, offset>>, {})
    /\ UNCHANGED <<mode, subscription, needs_partition_assignment, client_topics,
                   cfg_vars, life_vars, remote_committed, now, task>>

(***************************************************************************)
(* Lifecycle: start() and stop()                                           *)
(***************************************************************************)
Collaborators == {"coordinator", "fetcher", "client"}

\* self._api_version is a version string ('auto', '0.9', ...) until start()
\* converts it to a tuple of ints.
VersionStr(s) == [kind |-> "str", s |-> s, tuple |-> << >>]
VersionTuple(tup) == [kind |-> "tuple", s |-> "", tuple |-> tup]

\* The versions check_version() may detect.
BrokerVersions == {"0.8.2", "0.9"}

\* tuple(map(int, s.split('.')))
ParseVersion(s) ==
    IF s = "0.9" THEN <<0, 9>> ELSE IF s = "0.8.2" THEN <<0, 8, 2>> ELSE << >>

\* Python's tuple comparison a < b
RECURSIVE TupleLess(_, _)
TupleLess(a, b) ==
    IF b = << >> THEN FALSE
    ELSE IF a = << >> THEN TRUE
    ELSE IF Head(a) # Head(b) THEN Head(a) < Head(b)
    ELSE TupleLess(Tail(a), Tail(b))

Invoke(c) == [closes EXCEPT ![c].invoked = @ + 1]
Complete(c) == [closes EXCEPT ![c].completed = @ + 1]

\* The collaborator stop() closes next, having dealt with those before `stage`:
\* the coordinator and the fetcher are closed only if constructed.
NextClose(stage) ==
    IF stage = "coordinator" /\ coordinator THEN "coordinator"
    ELSE IF stage \in {"coordinator", "fetcher"} /\ fetcher THEN "fetcher"
    ELSE "client"

CloseCall(c) ==
    IF c = "coordinator" THEN "coordinator.close"
    ELSE IF c = "fetcher" THEN "fetcher.close" ELSE "client.close"

AfterClose(c) == IF c = "coordinator" THEN "fetcher" ELSE "client"

\* stop() without its `if self._closed: return`.
stop_unguarded(t) ==
    /\ task[t] = Idle
    /\ LET c == NextClose("coordinator") IN
       /\ closed' = TRUE
       /\ closes' = Invoke(c)
       /\ task' = [task EXCEPT ![t] = [op |-> "stop", pc |-> c]]
       /\ last' = Step("stop", t, "call", "suspended", None, {CloseCall(c)})
    /\ UNCHANGED <<sub_vars, client_topics, cfg_vars, api_version, fetcher,
                   coordinator, constructed, world_vars>>

\* stop() without its `if self._coordinator:` branch: the coordinator is left open.
stop_skips_coordinator(t) ==
    /\ task[t] = Idle
    /\ IF closed
       THEN /\ UNCHANGED <<closed, closes, task>>
            /\ last' = Step("stop", t, "call", "ok", None, {})
       ELSE LET c == NextClose("fetcher") IN
            /\ closed' = TRUE
            /\ closes' = Invoke(c)
            /\ task' = [task EXCEPT ![t] = [op |-> "stop", pc |-> c]]
            /\ last' = Step("stop", t, "call", "suspended", None, {CloseCall(c)})
    /\ UNCHANGED <<sub_vars, client_topics, cfg_vars, api_version, fetcher,
                   coordinator, constructed, world_vars>>

\* stop(), consumer.py 248-254: up to the first close() it awaits.
stop(t) ==
    /\ task[t] = Idle
    /\ IF closed
       THEN /\ UNCHANGED <<closed, closes, task>>
            /\ last' = Step("stop", t, "call", "ok", None, {})
       ELSE LET c == NextClose("coordinator") IN
            /\ closed' = TRUE
            /\ closes' = Invoke(c)
            /\ task' = [task EXCEPT ![t] = [op |-> "stop", pc |-> c]]
            /\ last' = Step("stop", t, "call", "suspended", None, {CloseCall(c)})
    /\ UNCHANGED <<sub_vars, client_topics, cfg_vars, api_version, fetcher,
                   coordinator, constructed, world_vars>>

\* stop(), consumer.py 255-260: the close() awaited returns (ok) or raises.
stop_resume(t, ok) ==
    /\ task[t].op = "stop"
    /\ LET c == task[t].pc IN
       IF ~ok
       THEN /\ UNCHANGED closes
            /\ task' = [task EXCEPT ![t] = Idle]
            /\ last' = Step("stop", t, c, "CloseError", None, {})
       ELSE IF c = "client"
       THEN /\ closes' = Complete(c)
            /\ task' = [task EXCEPT ![t] = Idle]
            /\ last' = Step("stop", t, c, "ok", None, {})
       ELSE LET n == NextClose(AfterClose(c)) IN
            /\ closes' = [Complete(c) EXCEPT ![n].invoked = @ + 1]
            /\ task' = [task EXCEPT ![t] = [op |-> "stop", pc |-> n]]
            /\ last' = Step("stop", t, c, "suspended", None, {CloseCall(n)})
    /\ UNCHANGED <<sub_vars, client_topics, cfg_vars, api_version, fetcher,
                   coordinator, closed, constructed, world_vars>>

\* start(), consumer.py 162-163
start(t) ==
    /\ task[t] = Idle
    /\ task' = [task EXCEPT ![t] = [op |-> "start", pc |-> "bootstrap"]]
    /\ last' = Step("start", t, "call", "suspended", None, {"client.bootstrap"})
    /\ UNCHANGED <<sub_vars, client_topics, cfg_vars, life_vars, world_vars>>

\* start(), consumer.py 168-198: from the conversion of the version `ver` that
\* self._api_version holds to the next suspension.
StartRest(t, ver) ==
    IF ver.kind = "tuple"
    THEN \* a tuple has no split()
         /\ api_version' = ver
         /\ UNCHANGED <<fetcher, coordinator, constructed>>
         /\ task' = [task EXCEPT ![t] = Idle]
         /\ last' = Step("start", t, task[t].pc, "AttributeError", None, {})
    ELSE LET tup == ParseVersion(ver.s) IN
         /\ api_version' = VersionTuple(tup)
         /\ IF TupleLess(tup, <<0, 9>>)
            THEN /\ UNCHANGED <<fetcher, coordinator, constructed>>
                 /\ task' = [task EXCEPT ![t] = Idle]
                 /\ last' = Step("start", t, task[t].pc, "ValueError", None, {})
            ELSE /\ fetcher' = TRUE
                 /\ coordinator' = TRUE
                 /\ constructed' = [constructed EXCEPT !.fetcher = @ + 1,
                                                       !.coordinator = @ + 1]
                 /\ IF group_id # None
                    THEN /\ task' = [task EXCEPT ![t] = [op |-> "start", pc |-> "join"]]
                         /\ last' = Step("start", t, task[t].pc, "suspended", None,
                                         {"coordinator.ensure_active_group"})
                    ELSE IF needs_partition_assignment
                    THEN /\ task' = [task EXCEPT ![t] = [op |-> "start", pc |-> "metadata"]]
                         /\ last' = Step("start", t, task[t].pc, "suspended", None,
                                         {"client.force_metadata_update"})
                    ELSE /\ task' = [task EXCEPT ![t] = Idle]
                         /\ last' = Step("start", t, task[t].pc, "ok", None, {})

\* start(), consumer.py 163-167: bootstrap() returns (ok) or raises.
start_bootstrapped(t, ok) ==
    /\ task[t].op = "start" /\ task[t].pc = "bootstrap"
    /\ IF ~ok
       THEN /\ UNCHANGED <<api_version, fetcher, coordinator, constructed>>
            /\ task' = [task EXCEPT ![t] = Idle]
            /\ last' = Step("start", t, "bootstrap", "ConnectionError", None, {})
       ELSE IF api_version = VersionStr("auto")
       THEN /\ UNCHANGED <<api_version, fetcher, coordinator, constructed>>
            /\ task' = [task EXCEPT ![t] = [op |-> "start", pc |-> "check_version"]]
            /\ last' = Step("start", t, "bootstrap", "suspended", None, {"client.check_version"})
       ELSE StartRest(t, api_version)
    /\ UNCHANGED <<sub_vars, client_topics, cfg_vars, closed, closes, world_vars>>

\* start(), consumer.py 167: check_version() returns the version string v.
start_version_checked(t, v) ==
    /\ task[t].op = "start" /\ task[t].pc = "check_version"
    /\ StartRest(t, VersionStr(v))
    /\ UNCHANGED <<sub_vars, client_topics, cfg_vars, closed, closes, world_vars>>

\* start(), consumer.py 196: ensure_active_group() returns, having delivered the
\* assignment `partitions` if partitions are assigned by the group.
start_joined(t, partitions) ==
    /\ task[t].op = "start" /\ task[t].pc = "join"
    /\ IF mode \in {"AUTO_TOPICS", "AUTO_PATTERN"}
       THEN /\ partitions \subseteq Assignable
            /\ AssignFromSubscribedState(partitions)
            /\ buffered' = << >>
       ELSE /\ partitions = {}
            /\ UNCHANGED <<sub_vars, buffered>>
    /\ task' = [task EXCEPT ![t] = Idle]
    /\ last' = Step("start", t, "join", "ok", None, {})
    /\ UNCHANGED <<client_topics, cfg_vars, life_vars, remote_committed, now>>

\* start(), consumer.py 198-205: force_metadata_update() returns; every
\* partition of every constructor topic is assigned.
start_metadata_updated(t) ==
    /\ task[t].op = "start" /\ task[t].pc = "metadata"
    /\ AssignFromUserState(
         UNION { { TopicPartition(topic, p_id) : p_id \in partitions_for_topic(topic) } :
                 topic \in topics_arg })
    /\ buffered' = << >>
    /\ task' = [task EXCEPT ![t] = Idle]
    /\ last' = Step("start", t, "metadata", "ok", None, {})
    /\ UNCHANGED <<client_topics, cfg_vars, life_vars, remote_committed, now>>

(***************************************************************************)
(* Position resolution: _update_fetch_positions()                          *)
(***************************************************************************)
\* The offsets the broker reports for a partition's log.
earliest_offset(tp) == 1
latest_offset(tp) == MaxOffset

\* GroupCoordinator.refresh_committed_offsets(): the cached committed offset of
\* every assigned partition is set from the group's commits on the broker.
RefreshCommitted(asg) ==
    [tp \in DOMAIN asg |-> [asg[tp] EXCEPT !.committed = remote_committed[tp]]]

\* The offset the reset policy gives a partition without a committed offset.
ResetOffset(tp) ==
    IF auto_offset_reset = "earliest" THEN earliest_offset(tp) ELSE latest_offset(tp)

\* The partitions among `partitions` that Fetcher.update_fetch_positions() has to
\* resolve: still assigned and without a position.
Unresolved(asg, partitions) ==
    { tp \in partitions \cap DOMAIN asg : asg[tp].position = None }

\* Fetcher.update_fetch_positions() fails when a partition has neither a
\* committed offset nor a reset policy.
NoOffsetForPartition(asg, partitions) ==
    /\ auto_offset_reset = "none"
    /\ \E tp \in Unresolved(asg, partitions) : asg[tp].committed = None

\* Fetcher.update_fetch_positions(partitions): the committed offset if there is
\* one, else the reset policy's offset.
UpdateFetchPositions(asg, partitions) ==
    [tp \in DOMAIN asg |->
        IF tp \in Unresolved(asg, partitions)
        THEN [asg[tp] EXCEPT !.position =
                 IF asg[tp].committed # None THEN asg[tp].committed
                 ELSE Some(ResetOffset(tp))]
        ELSE asg[tp]]

\* A coroutine ends by raising `exc`; val is what the step record keeps of the call.
Raise(t, op, at, exc, val) ==
    /\ task' = [task EXCEPT ![t] = Idle]
    /\ last' = Step(op, t, at, exc, val, {})

\* _update_fetch_positions() that goes straight to the Fetcher, without the
\* refresh of the committed offsets of a consumer in a group.
BeginResolve_norefresh(t, rec, at, val) ==
    IF ~fetcher
    THEN Raise(t, rec.op, at, "AttributeError", val)
    ELSE /\ task' = [task EXCEPT ![t] = [rec EXCEPT !.pc = "update"]]
         /\ last' = Step(rec.op, t, at, "suspended", val,
                         {"fetcher.update_fetch_positions"})

\* _update_fetch_positions() that refreshes the committed offsets whether or not
\* the consumer has a group id.
BeginResolve_refresh_always(t, rec, at, val) ==
    IF ~coordinator
    THEN Raise(t, rec.op, at, "AttributeError", val)
    ELSE /\ task' = [task EXCEPT ![t] = [rec EXCEPT !.pc = "refresh"]]
         /\ last' = Step(rec.op, t, at, "suspended", val,
                         {"coordinator.refresh_committed_offsets"})

\* _update_fetch_positions(), consumer.py 515-520, entered by the coroutine whose
\* locals are `rec`: up to its first suspension.
BeginResolve(t, rec, at, val) ==
    IF group_id # None
    THEN IF ~coordinator
         THEN Raise(t, rec.op, at, "AttributeError", val)
         ELSE /\ task' = [task EXCEPT ![t] = [rec EXCEPT !.pc = "refresh"]]
              /\ last' = Step(rec.op, t, at, "suspended", val,
                              {"coordinator.refresh_committed_offsets"})
    ELSE IF ~fetcher
         THEN Raise(t, rec.op, at, "AttributeError", val)
         ELSE /\ task' = [task EXCEPT ![t] = [rec EXCEPT !.pc = "update"]]
              /\ last' = Step(rec.op, t, at, "suspended", val,
                              {"fetcher.update_fetch_positions"})

\* _update_fetch_positions(), consumer.py 517-520: refresh_committed_offsets()
\* returns and update_fetch_positions() is invoked.
resolve_refreshed(t) ==
    /\ task[t].pc = "refresh"
    /\ assignment' = RefreshCommitted(assignment)
    /\ IF ~fetcher
       THEN Raise(t, task[t].op, "refresh", "AttributeError", None)
       ELSE /\ task' = [task EXCEPT ![t].pc = "update"]
            /\ last' = Step(task[t].op, t, "refresh", "suspended", None,
                            {"fetcher.update_fetch_positions"})
    /\ UNCHANGED <<mode, subscription, needs_partition_assignment, client_topics,
                   cfg_vars, life_vars, world_vars>>

(***************************************************************************)
(* position()                                                              *)
(***************************************************************************)
\* position(partition), consumer.py 355-359.  The step record keeps the
\* partition asked for and the offset returned.
position(t, tp) ==
    /\ task[t] = Idle
    /\ IF ~is_assigned(tp)
       THEN Raise(t, "position", "call", "AssertionError", <<tp, None>>)
       ELSE IF assignment[tp].position # None
       THEN /\ UNCHANGED task
            /\ last' = Step("position", t, "call", "ok", <<tp, assignment[tp].position>>, {})
       ELSE BeginResolve(t, [op |-> "position", pc |-> "call", tp |-> tp,
                             partitions |-> {tp}], "call", <<tp, None>>)
    /\ UNCHANGED <<sub_vars, client_topics, cfg_vars, life_vars, world_vars>>

\* position(partition), consumer.py 360-361: after the resolution, on the
\* partition map asg.
PositionReturn(t, asg) ==
    IF task[t].tp \notin DOMAIN asg
    THEN Raise(t, "position", "update", "KeyError", <<task[t].tp, None>>)
    ELSE /\ task' = [task EXCEPT ![t] = Idle]
         /\ last' = Step("position", t, "update", "ok",
                         <<task[t].tp, asg[task[t].tp].position>>, {})

(***************************************************************************)
(* getmany()                                                               *)
(***************************************************************************)
\* The clock of the model stops at MaxTime.
MaxTime == MaxTimeout + MaxPoll + 1

\* Fetcher.fetched_records(partitions): the buffered records of the requested
\* partitions (of all assigned ones if none is named) that can be consumed.
FetchedRecords(asg, req) ==
    { tp \in DOMAIN buffered : /\ tp \in DOMAIN asg
                        /\ asg[tp].position # None
                        /\ (req = {} \/ tp \in req) }

\* Returning the records of the partitions R moves their positions on.
Consume(asg, R) ==
    [tp \in DOMAIN asg |->
        IF tp \in R THEN [asg[tp] EXCEPT !.position = Some(Val(@) + 1)] ELSE asg[tp]]

\* What a getmany() call with locals g hands back: the partitions it returns
\* records of, with the call's timeout and the time it took since start_time.
Returned(g, records) ==
    [records |-> records, timeout |-> g.timeout, waited |-> now - g.start_time]

\* getmany(), consumer.py 594-598: one turn of the loop, to the return of the
\* records or to the sleep, for the call with locals g on the partition map asg.
GetmanyPoll(t, g, asg, at) ==
    IF ~fetcher
    THEN /\ assignment' = asg
         /\ UNCHANGED buffered
         /\ Raise(t, "getmany", at, "AttributeError", None)
    ELSE LET records == FetchedRecords(asg, g.req) IN
         IF records # {}
         THEN /\ assignment' = Consume(asg, records)
              /\ buffered' = Drop(buffered, records)
              /\ task' = [task EXCEPT ![t] = Idle]
              /\ last' = Step("getmany", t, at, "ok", Returned(g, records),
                              {"fetcher.fetched_records"})
         ELSE /\ assignment' = asg
              /\ UNCHANGED buffered
              /\ task' = [task EXCEPT ![t] =
                            [g EXCEPT !.pc = "sleep", !.wake_at = now + consumer_timeout]]
              /\ last' = Step("getmany", t, at, "suspended", None,
                              {"fetcher.fetched_records", "asyncio.sleep"})

\* getmany(*partitions, timeout_ms), consumer.py 583-598.  The call is made only
\* while the model's clock can still reach its deadline.
getmany(t, req, timeout) ==
    /\ task[t] = Idle
    /\ now + timeout + consumer_timeout <= MaxTime
    /\ LET g == [op |-> "getmany", pc |-> "call", req |-> req, timeout |-> timeout,
                 start_time |-> now, wake_at |-> now,
                 partitions |-> missing_fetch_positions] IN
       IF ~has_all_fetch_positions
       THEN /\ BeginResolve(t, g, "call", None)
            /\ UNCHANGED <<assignment, buffered>>
       ELSE GetmanyPoll(t, g, assignment, "call")
    /\ UNCHANGED <<mode, subscription, needs_partition_assignment, client_topics,
                   cfg_vars, life_vars, remote_committed, now>>

\* getmany()'s deadline test with > for >=.
getmany_wake_strict(t) ==
    /\ task[t].op = "getmany" /\ task[t].pc = "sleep"
    /\ now >= task[t].wake_at
    /\ IF now - task[t].start_time > task[t].timeout
       THEN /\ UNCHANGED <<assignment, buffered>>
            /\ task' = [task EXCEPT ![t] = Idle]
            /\ last' = Step("getmany", t, "sleep", "ok", Returned(task[t], {}), {})
       ELSE GetmanyPoll(t, task[t], assignment, "sleep")
    /\ UNCHANGED <<mode, subscription, needs_partition_assignment, client_topics,
                   cfg_vars, life_vars, remote_committed, now>>

\* getmany(), consumer.py 598-602: the sleep is over.
getmany_wake(t) ==
    /\ task[t].op = "getmany" /\ task[t].pc = "sleep"
    /\ now >= task[t].wake_at
    /\ IF now - task[t].start_time >= task[t].timeout
       THEN /\ UNCHANGED <<assignment, buffered>>
            /\ task' = [task EXCEPT ![t] = Idle]
            /\ last' = Step("getmany", t, "sleep", "ok", Returned(task[t], {}), {})
       ELSE GetmanyPoll(t, task[t], assignment, "sleep")
    /\ UNCHANGED <<mode, subscription, needs_partition_assignment, client_topics,
                   cfg_vars, life_vars, remote_committed, now>>

(***************************************************************************)
(* getone()                                                                *)
(***************************************************************************)
\* getone(), consumer.py 551-557: the Fetcher is asked for one record of the
\* requested partitions, on the partition map asg; the record is returned, or
\* the call sleeps for the poll interval.
GetoneNextRecord(t, g, asg, at) ==
    IF ~fetcher
    THEN /\ assignment' = asg
         /\ UNCHANGED buffered
         /\ Raise(t, "getone", at, "AttributeError", None)
    ELSE IF FetchedRecords(asg, g.req) # {}
    THEN \E tp \in FetchedRecords(asg, g.req) :
            /\ assignment' = Consume(asg, {tp})
            /\ buffered' = Drop(buffered, {tp})
            /\ task' = [task EXCEPT ![t] = Idle]
            /\ last' = Step("getone", t, at, "ok", Some(tp), {"fetcher.next_record"})
    ELSE /\ assignment' = asg
         /\ UNCHANGED buffered
         /\ task' = [task EXCEPT ![t] = [g EXCEPT !.pc = "asleep"]]
         /\ last' = Step("getone", t, at, "suspended", None,
                         {"fetcher.next_record", "asyncio.sleep"})

\* getone(), consumer.py 539-551: the outer loop from its head, to the sleep of
\* the wait for an assignment, to the resolution of the missing positions, or
\* on to the Fetcher.
GetoneLoop(t, g, at) ==
    IF assigned_partitions = {}
    THEN /\ UNCHANGED <<assignment, buffered>>
         /\ task' = [task EXCEPT ![t] = [g EXCEPT !.pc = "wait"]]
         /\ last' = Step("getone", t, at, "suspended", None, {"asyncio.sleep"})
    ELSE IF ~has_all_fetch_positions
    THEN /\ UNCHANGED <<assignment, buffered>>
         /\ BeginResolve(t, [g EXCEPT !.partitions = missing_fetch_positions], at, None)
    ELSE GetoneNextRecord(t, g, assignment, at)

\* getone(*partitions), consumer.py 537-557, to its first suspension.
getone(t, req) ==
    /\ task[t] = Idle
    /\ GetoneLoop(t, [op |-> "getone", pc |-> "call", req |-> req, partitions |-> {}],
                  "call")
    /\ UNCHANGED <<mode, subscription, needs_partition_assignment, client_topics,
                   cfg_vars, life_vars, remote_committed, now>>

\* getone() that gives up, returning None, when it wakes up on a closed consumer.
getone_wake_closed(t) ==
    /\ task[t].op = "getone" /\ task[t].pc \in {"wait", "asleep"}
    /\ IF closed
       THEN /\ UNCHANGED <<assignment, buffered>>
            /\ task' = [task EXCEPT ![t] = Idle]
            /\ last' = Step("getone", t, task[t].pc, "ok", None, {})
       ELSE GetoneLoop(t, task[t], task[t].pc)
    /\ UNCHANGED <<mode, subscription, needs_partition_assignment, client_topics,
                   cfg_vars, life_vars, remote_committed, now>>

\* getone(), consumer.py 542-543 and 553-555: a sleep of the call is over, and
\* the outer loop is gone through again.
getone_wake(t) ==
    /\ task[t].op = "getone" /\ task[t].pc \in {"wait", "asleep"}
    /\ GetoneLoop(t, task[t], task[t].pc)
    /\ UNCHANGED <<mode, subscription, needs_partition_assignment, client_topics,
                   cfg_vars, life_vars, remote_committed, now>>

\* A resolution whose failure is swallowed: the poll loops sleep and go on, and
\* position() returns None.
resolve_updated_swallow(t) ==
    /\ task[t].pc = "update"
    /\ IF NoOffsetForPartition(assignment, task[t].partitions)
       THEN IF task[t].op = "position"
            THEN /\ UNCHANGED <<assignment, buffered>>
                 /\ PositionReturn(t, assignment)
            ELSE /\ UNCHANGED <<assignment, buffered>>
                 /\ task' = [task EXCEPT ![t].pc =
                               IF task[t].op = "getone" THEN "asleep" ELSE "sleep"]
                 /\ last' = Step(task[t].op, t, "update", "suspended", None,
                                 {"asyncio.sleep"})
       ELSE LET asg == UpdateFetchPositions(assignment, task[t].partitions) IN
            IF task[t].op = "position"
            THEN /\ assignment' = asg
                 /\ UNCHANGED buffered
                 /\ PositionReturn(t, asg)
            ELSE IF task[t].op = "getone"
            THEN GetoneNextRecord(t, task[t], asg, "update")
            ELSE GetmanyPoll(t, [task[t] EXCEPT !.start_time = now], asg, "update")
    /\ UNCHANGED <<mode, subscription, needs_partition_assignment, client_topics,
                   cfg_vars, life_vars, remote_committed, now>>

\* _update_fetch_positions(), consumer.py 520: update_fetch_positions() returns
\* or raises, and the coroutine that asked for the resolution goes on: position()
\* at line 360, getone() at line 551, getmany() at line 591.
resolve_updated(t) ==
    /\ task[t].pc = "update"
    /\ IF NoOffsetForPartition(assignment, task[t].partitions)
       THEN /\ UNCHANGED <<assignment, buffered>>
            /\ Raise(t, task[t].op, "update", "NoOffsetForPartitionError", None)
       ELSE LET asg == UpdateFetchPositions(assignment, task[t].partitions) IN
            IF task[t].op = "position"
            THEN /\ assignment' = asg
                 /\ UNCHANGED buffered
                 /\ PositionReturn(t, asg)
            ELSE IF task[t].op = "getone"
            THEN GetoneNextRecord(t, task[t], asg, "update")
            ELSE GetmanyPoll(t, [task[t] EXCEPT !.start_time = now], asg, "update")
    /\ UNCHANGED <<mode, subscription, needs_partition_assignment, client_topics,
                   cfg_vars, life_vars, remote_committed, now>>

\* The loop's clock moves on while a task sleeps.
tick ==
    /\ \E t \in Tasks : task[t].pc = "sleep"
    /\ now < MaxTime
    /\ now' = now + 1
    /\ last' = Step("tick", "t1", "background", "ok", None, {})
    /\ UNCHANGED <<sub_vars, client_topics, cfg_vars, life_vars, buffered,
                   remote_committed, task>>

(***************************************************************************)
(* commit()                                                                *)
(***************************************************************************)
\* The positions of the assigned partitions, as they are when a call is made.
Positions == [tp \in DOMAIN assignment |-> assignment[tp].position]

\* commit() that builds its default offsets from the committed offsets of the
\* partitions, not from their positions.
commit_of_committed(t, kind, offsets) ==
    /\ task[t] = Idle
    /\ IF group_id = None \/ kind = "invalid"
       THEN Raise(t, "commit", "call", "AssertionError", None)
       ELSE IF ~coordinator
       THEN Raise(t, "commit", "call", "AttributeError", None)
       ELSE /\ task' = [task EXCEPT ![t] =
                          [op |-> "commit", pc |-> "commit", kind |-> kind,
                           offsets |-> IF kind = "default"
                                       THEN [ tp \in { p \in DOMAIN assignment :
                                                       assignment[p].committed # None } |->
                                                 Val(assignment[tp].committed) ]
                                       ELSE offsets,
                           at_call |-> Positions]]
            /\ last' = Step("commit", t, "call", "suspended", None,
                            {"coordinator.commit_offsets"})
    /\ UNCHANGED <<sub_vars, client_topics, cfg_vars, life_vars, world_vars>>

\* commit() without its `assert self._group_id is not None`.
commit_unguarded(t, kind, offsets) ==
    /\ task[t] = Idle
    /\ IF kind = "invalid"
       THEN Raise(t, "commit", "call", "AssertionError", None)
       ELSE IF ~coordinator
       THEN Raise(t, "commit", "call", "AttributeError", None)
       ELSE /\ task' = [task EXCEPT ![t] =
                          [op |-> "commit", pc |-> "commit", kind |-> kind,
                           offsets |-> IF kind = "default" THEN all_consumed_offsets
                                       ELSE offsets,
                           at_call |-> Positions]]
            /\ last' = Step("commit", t, "call", "suspended", None,
                            {"coordinator.commit_offsets"})
    /\ UNCHANGED <<sub_vars, client_topics, cfg_vars, life_vars, world_vars>>

\* commit(offsets), consumer.py 281-290: to the suspension in commit_offsets().
\* kind is "default" (offsets is None), "explicit" (a well-formed dict) or
\* "invalid" (a dict that fails the validation).
commit(t, kind, offsets) ==
    /\ task[t] = Idle
    /\ IF group_id = None \/ kind = "invalid"
       THEN Raise(t, "commit", "call", "AssertionError", None)
       ELSE IF ~coordinator
       THEN Raise(t, "commit", "call", "AttributeError", None)
       ELSE /\ task' = [task EXCEPT ![t] =
                          [op |-> "commit", pc |-> "commit", kind |-> kind,
                           offsets |-> IF kind = "default" THEN all_consumed_offsets
                                       ELSE offsets,
                           at_call |-> Positions]]
            /\ last' = Step("commit", t, "call", "suspended", None,
                            {"coordinator.commit_offsets"})
    /\ UNCHANGED <<sub_vars, client_topics, cfg_vars, life_vars, world_vars>>

\* GroupCoordinator.commit_offsets(offsets) writes the offsets to the broker.
Committed(offsets) ==
    [tp \in TPs |-> IF tp \in DOMAIN offsets THEN Some(offsets[tp])
                    ELSE remote_committed[tp]]

\* commit(), consumer.py 290: commit_offsets() returns (ok) or raises.
commit_done(t, ok) ==
    /\ task[t].op = "commit"
    /\ IF ok
       THEN /\ remote_committed' = Committed(task[t].offsets)
            /\ task' = [task EXCEPT ![t] = Idle]
            /\ last' = Step("commit", t, "commit", "ok", task[t].kind, {})
       ELSE /\ UNCHANGED remote_committed
            /\ Raise(t, "commit", "commit", "CommitFailedError", None)
    /\ UNCHANGED <<sub_vars, client_topics, cfg_vars, life_vars, buffered, now>>

(***************************************************************************)
(* committed() and seek_to_committed()                                     *)
(***************************************************************************)
\* The orders in which the partitions of the set S can be gone through.
Orderings(S) ==
    { seq \in [1 .. Cardinality(S) -> S] :
        \A i, j \in 1 .. Cardinality(S) : seq[i] = seq[j] => i = j }

\* The outcome of a stretch of code that runs on the partition map asg and the
\* Fetcher buffer buf: how it ends, at which suspension (pc), the partitions it
\* still has to go through, those it has dealt with (each with the offset that
\* committed() returned for it), the collaborator calls made.
Outcome(res, pc, asg, buf, todo, done, calls) ==
    [res |-> res, pc |-> pc, asg |-> asg, buf |-> buf, todo |-> todo,
     done |-> done, calls |-> calls]

\* seek_to_committed() that seeks to every committed offset, 0 included
\* (`if offset is not None` for `if offset and offset > 0`).
AfterCommitted_any(asg, buf, tp, c) ==
    IF c # None
    THEN IF tp \in DOMAIN asg
         THEN Outcome("ok", "", [asg EXCEPT ![tp].position = c], Drop(buf, {tp}),
                      << >>, << >>, {})
         ELSE Outcome("AssertionError", "", asg, buf, << >>, << >>, {})
    ELSE Outcome("ok", "", asg, buf, << >>, << >>, {})

\* seek_to_committed(), consumer.py 431-432: committed(tp) has returned c; the
\* seek() is made only for a positive offset, and asserts the assignment of tp.
AfterCommitted(asg, buf, tp, c) ==
    IF c # None /\ Val(c) > 0
    THEN IF tp \in DOMAIN asg
         THEN Outcome("ok", "", [asg EXCEPT ![tp].position = c], Drop(buf, {tp}),
                      << >>, << >>, {})
         ELSE Outcome("AssertionError", "", asg, buf, << >>, << >>, {})
    ELSE Outcome("ok", "", asg, buf, << >>, << >>, {})

\* committed() that returns the cached offset of an assigned partition as it
\* is, without the lazy refresh of an unknown one.
CommittedBegin_cached(asg, tp) ==
    IF group_id = None
    THEN Outcome("AssertionError", "", asg, << >>, << >>, None, {})
    ELSE IF tp \in DOMAIN asg
    THEN Outcome("ok", "", asg, << >>, << >>, asg[tp].committed, {})
    ELSE IF ~coordinator
    THEN Outcome("AttributeError", "", asg, << >>, << >>, None, {})
    ELSE Outcome("suspended", "committed_fetch", asg, << >>, << >>, None,
                 {"coordinator.fetch_committed_offsets"})

\* committed(partition), consumer.py 309-317, for the partition tp on the map
\* asg: what it returns at once (res "ok", the value in `done`), the exception
\* it raises, or the collaborator call it is suspended in.
CommittedBegin(asg, tp) ==
    IF group_id = None
    THEN Outcome("AssertionError", "", asg, << >>, << >>, None, {})
    ELSE IF tp \in DOMAIN asg /\ asg[tp].committed # None
    THEN Outcome("ok", "", asg, << >>, << >>, asg[tp].committed, {})
    ELSE IF ~coordinator
    THEN Outcome("AttributeError", "", asg, << >>, << >>, None, {})
    ELSE IF tp \in DOMAIN asg
    THEN Outcome("suspended", "committed_refresh", asg, << >>, << >>, None,
                 {"coordinator.refresh_committed_offsets"})
    ELSE Outcome("suspended", "committed_fetch", asg, << >>, << >>, None,
                 {"coordinator.fetch_committed_offsets"})

\* seek_to_committed(), consumer.py 428-432: the loop from its head, with the
\* partitions todo still to go through and done dealt with, until it is over,
\* raises or is suspended in the committed() of the first of todo.
RECURSIVE SeekToCommittedRun(_, _, _, _)
SeekToCommittedRun(asg, buf, todo, done) ==
    IF todo = << >>
    THEN Outcome("ok", "", asg, buf, << >>, done, {})
    ELSE LET tp == Head(todo)
             c == CommittedBegin(asg, tp) IN
         IF c.res = "ok"
         THEN LET s == AfterCommitted(asg, buf, tp, c.done) IN
              IF s.res = "ok"
              THEN SeekToCommittedRun(s.asg, s.buf, Tail(todo),
                                      Append(done, [tp |-> tp, c |-> c.done]))
              ELSE Outcome(s.res, "", asg, buf, todo, done, {})
         ELSE Outcome(c.res, c.pc, asg, buf, todo, done, c.calls)

\* seek_to_committed(), consumer.py 431-432 and on: committed(tp) has returned c
\* to the loop after a suspension.
SeekToCommittedResume(asg, buf, todo, c) ==
    LET s == AfterCommitted(asg, buf, Head(todo), c) IN
    IF s.res = "ok"
    THEN SeekToCommittedRun(s.asg, s.buf, Tail(todo), <<[tp |-> Head(todo), c |-> c]>>)
    ELSE Outcome(s.res, "", asg, buf, todo, << >>, {})

\* The step of seek_to_committed() on task t that ends with the outcome o.
SeekToCommittedStep(t, o, at) ==
    /\ assignment' = o.asg
    /\ buffered' = o.buf
    /\ task' = [task EXCEPT ![t] =
                  IF o.res = "suspended"
                  THEN [op |-> "seek_to_committed", pc |-> o.pc, todo |-> o.todo]
                  ELSE Idle]
    /\ last' = Step("seek_to_committed", t, at, o.res, o.done, o.calls)

\* seek_to_committed(*partitions), consumer.py 420-432, to its first suspension.
\* partitions is the sequence of the arguments; without arguments the assigned
\* partitions are gone through, in the order the set gives them.
seek_to_committed(t, partitions) ==
    /\ task[t] = Idle
    /\ IF partitions = << >> /\ assigned_partitions = {}
       THEN /\ UNCHANGED <<assignment, buffered>>
            /\ Raise(t, "seek_to_committed", "call", "AssertionError", << >>)
       ELSE IF \E i \in DOMAIN partitions : partitions[i] \notin assigned_partitions
       THEN /\ UNCHANGED <<assignment, buffered>>
            /\ Raise(t, "seek_to_committed", "call", "AssertionError", << >>)
       ELSE \E todo \in (IF partitions = << >> THEN Orderings(assigned_partitions)
                         ELSE {partitions}) :
               SeekToCommittedStep(t, SeekToCommittedRun(assignment, buffered, todo, << >>),
                                   "call")
    /\ UNCHANGED <<mode, subscription, needs_partition_assignment, client_topics,
                   cfg_vars, life_vars, remote_committed, now>>

\* committed(partition), consumer.py 309-322, to its suspension if it has one.
\* The step record keeps the partition asked for and the offset returned.
committed(t, tp) ==
    /\ task[t] = Idle
    /\ LET c == CommittedBegin(assignment, tp) IN
       /\ task' = [task EXCEPT ![t] =
                     IF c.res = "suspended"
                     THEN [op |-> "committed", pc |-> c.pc, todo |-> <<tp>>]
                     ELSE Idle]
       /\ last' = Step("committed", t, "call", c.res, <<tp, c.done>>, c.calls)
    /\ UNCHANGED <<sub_vars, client_topics, cfg_vars, life_vars, world_vars>>

\* committed(), consumer.py 313-314: refresh_committed_offsets() returns, and
\* the cached committed offset of the partition is read again.
committed_refreshed(t) ==
    /\ task[t].pc = "committed_refresh"
    /\ LET asg == RefreshCommitted(assignment)
           tp == Head(task[t].todo) IN
       IF tp \notin DOMAIN asg
       THEN /\ assignment' = asg
            /\ UNCHANGED buffered
            /\ Raise(t, task[t].op, "committed_refresh", "KeyError",
                     IF task[t].op = "committed" THEN <<tp, None>> ELSE << >>)
       ELSE IF task[t].op = "committed"
       THEN /\ assignment' = asg
            /\ UNCHANGED buffered
            /\ task' = [task EXCEPT ![t] = Idle]
            /\ last' = Step("committed", t, "committed_refresh", "ok",
                            <<tp, asg[tp].committed>>, {})
       ELSE SeekToCommittedStep(t, SeekToCommittedResume(asg, buffered, task[t].todo,
                                                         asg[tp].committed),
                                "committed_refresh")
    /\ UNCHANGED <<mode, subscription, needs_partition_assignment, client_topics,
                   cfg_vars, life_vars, remote_committed, now>>

\* committed(), consumer.py 316-321: fetch_committed_offsets([partition])
\* returns the group's commit map of a partition that was not assigned.
committed_fetched(t) ==
    /\ task[t].pc = "committed_fetch"
    /\ LET tp == Head(task[t].todo)
           c == remote_committed[tp] IN
       IF task[t].op = "committed"
       THEN /\ UNCHANGED <<assignment, buffered>>
            /\ task' = [task EXCEPT ![t] = Idle]
            /\ last' = Step("committed", t, "committed_fetch", "ok", <<tp, c>>, {})
       ELSE SeekToCommittedStep(t, SeekToCommittedResume(assignment, buffered,
                                                         task[t].todo, c),
                                "committed_fetch")
    /\ UNCHANGED <<mode, subscription, needs_partition_assignment, client_topics,
                   cfg_vars, life_vars, remote_committed, now>>

(***************************************************************************)
(* The state after __init__, consumer.py 127-159                           *)
(***************************************************************************)
Group == <<"g">>

InitWith(topicsets, groups, resets, polls, versions) ==
    /\ topics_arg \in topicsets
    /\ group_id \in groups
    /\ auto_offset_reset \in resets
    /\ consumer_timeout \in polls
    /\ api_version \in { VersionStr(v) : v \in versions }
    /\ mode = IF topics_arg # {} THEN "AUTO_TOPICS" ELSE "UNSUBSCRIBED"
    /\ subscription = topics_arg
    /\ needs_partition_assignment = (topics_arg # {})
    /\ assignment = << >>
    /\ client_topics = topics_arg
    /\ fetcher = FALSE
    /\ coordinator = FALSE
    /\ closed = FALSE
    /\ closes = [c \in Collaborators |-> [invoked |-> 0, completed |-> 0]]
    /\ constructed = [fetcher |-> 0, coordinator |-> 0]
    /\ buffered = << >>
    /\ remote_committed = [tp \in TPs |-> None]
    /\ now = 0
    /\ task = [t \in Tasks |-> Idle]
    /\ last = Step("init", "t1", "init", "ok", None, {})

(***************************************************************************)
(* Background work of the collaborators                                    *)
(***************************************************************************)
\* A collaborator works from its construction until its close() is invoked.
coordinator_alive == coordinator /\ closes["coordinator"].invoked = 0
fetcher_alive == fetcher /\ closes["fetcher"].invoked = 0

\* GroupCoordinator: a rebalance delivers a new assignment (assignment-changed
\* callback); the partition map is replaced in one step.
rebalance(partitions) ==
    /\ coordinator_alive
    /\ group_id # None
    /\ mode \in {"AUTO_TOPICS", "AUTO_PATTERN"}
    /\ partitions \subseteq Assignable
    /\ AssignFromSubscribedState(partitions)
    /\ buffered' = << >>
    /\ last' = Step("rebalance", "t1", "background", "ok", None, {})
    /\ UNCHANGED <<client_topics, cfg_vars, life_vars, remote_committed, now, task>>

\* Fetcher: a fetch response buffers a record of partition tp (which has a
\* position to fetch from) and reports the partition's highwater.
fetch_arrive(tp) ==
    /\ fetcher_alive
    /\ tp \in assigned_partitions
    /\ tp \notin DOMAIN buffered
    /\ assignment[tp].position # None
    /\ Val(assignment[tp].position) < MaxOffset
    /\ buffered' = [p \in DOMAIN buffered \cup {tp} |-> IF p = tp THEN now ELSE buffered[p]]
    /\ assignment' = [assignment EXCEPT ![tp].highwater = Some(MaxOffset)]
    /\ last' = Step("fetch_arrive", "t1", "background", "ok", None, {})
    /\ UNCHANGED <<mode, subscription, needs_partition_assignment, client_topics,
                   cfg_vars, life_vars, remote_committed, now, task>>

(***************************************************************************)
(* Specifications                                                          *)
(***************************************************************************)
\* Subscription modes: subscribe / assign / unsubscribe around a started or
\* unstarted consumer, with rebalances in between.
InitMode == InitWith(SUBSET Topics, {None, Group}, {"latest"}, {1}, {"0.9"})

NextMode ==
    \/ \E t \in Tasks, partitions \in SUBSET TPs : assign(t, partitions)
    \/ \E t \in Tasks, kind \in {"topics", "pattern", "nothing"},
          topics \in (SUBSET Topics) \ {{}} : subscribe(t, kind, topics)
    \/ \E t \in Tasks : unsubscribe(t)
    \/ \E t \in Tasks : start(t)
    \/ \E t \in Tasks, ok \in BOOLEAN : start_bootstrapped(t, ok)
    \/ \E t \in Tasks, partitions \in SUBSET TPs : start_joined(t, partitions)
    \/ \E t \in Tasks : start_metadata_updated(t)
    \/ \E partitions \in SUBSET TPs : rebalance(partitions)

SpecMode == InitMode /\ [][NextMode]_vars

\* Lifecycle: start() and stop() calls of two tasks, interleaved at their
\* suspension points.
InitLife == InitWith({{}, {"a"}}, {None, Group}, {"latest"}, {1}, {"auto", "0.9"})

NextLife ==
    \/ \E t \in Tasks : start(t)
    \/ \E t \in Tasks, ok \in BOOLEAN : start_bootstrapped(t, ok)
    \/ \E t \in Tasks, v \in BrokerVersions : start_version_checked(t, v)
    \/ \E t \in Tasks, partitions \in SUBSET TPs : start_joined(t, partitions)
    \/ \E t \in Tasks : start_metadata_updated(t)
    \/ \E t \in Tasks : stop(t)
    \/ \E t \in Tasks, ok \in BOOLEAN : stop_resume(t, ok)

SpecLife == InitLife /\ [][NextLife]_vars

\* Polling: the getmany() calls of one task on a consumer with user-assigned
\* partitions, while records arrive in the Fetcher and the clock runs.
PollTPs == { TopicPartition("a", 0), TopicPartition("b", 0) }

InitPoll == InitWith({{}}, {None, Group}, {"earliest", "none"}, 1 .. MaxPoll, {"0.9"})

NextPoll ==
    \/ start("t1")
    \/ \E ok \in BOOLEAN : start_bootstrapped("t1", ok)
    \/ start_joined("t1", {})
    \/ \E partitions \in SUBSET PollTPs : assign("t1", partitions)
    \/ \E req \in {{}, {TopicPartition("a", 0)}}, timeout \in 0 .. MaxTimeout :
          getmany("t1", req, timeout)
    \/ getmany_wake("t1")
    \/ resolve_refreshed("t1")
    \/ resolve_updated("t1")
    \/ \E tp \in PollTPs : fetch_arrive(tp)
    \/ tick

SpecPoll == InitPoll /\ [][NextPoll]_vars

\* The event loop runs a sleeping task once its delay is over, and its clock
\* moves on.
SpecPollFair == SpecPoll /\ WF_vars(getmany_wake("t1")) /\ WF_vars(tick)

\* Commits: one task starts the consumer, assigns and commits; the other seeks
\* meanwhile, and the group rebalances.
CommitTPs == { TopicPartition("a", 0), TopicPartition("b", 0) }

InitCommit == InitWith({{}, {"b"}}, {None, Group}, {"latest"}, {1}, {"0.9"})

NextCommit ==
    \/ start("t1")
    \/ \E ok \in BOOLEAN : start_bootstrapped("t1", ok)
    \/ \E partitions \in SUBSET CommitTPs : start_joined("t1", partitions)
    \/ start_metadata_updated("t1")
    \/ \E partitions \in SUBSET CommitTPs : assign("t1", partitions)
    \/ \E tp \in CommitTPs, offset \in Offsets : seek("t2", tp, offset)
    \/ \E kind \in {"default", "invalid"} : commit("t1", kind, << >>)
    \/ \E offset \in Offsets :
          commit("t1", "explicit", [p \in {TopicPartition("b", 0)} |-> offset])
    \/ \E ok \in BOOLEAN : commit_done("t1", ok)
    \/ \E partitions \in SUBSET CommitTPs : rebalance(partitions)

SpecCommit == InitCommit /\ [][NextCommit]_vars

\* Seeks and positions: one task starts the consumer, assigns, seeks, commits
\* and asks for positions; the other seeks meanwhile; records arrive in the
\* Fetcher.
SeekTPs == { TopicPartition("a", 0), TopicPartition("b", 0) }

InitSeek == InitWith({{}, {"b"}}, {None, Group}, {"earliest"}, {1}, {"0.9"})

NextSeek ==
    \/ start("t1")
    \/ \E ok \in BOOLEAN : start_bootstrapped("t1", ok)
    \/ \E partitions \in SUBSET SeekTPs : start_joined("t1", partitions)
    \/ start_metadata_updated("t1")
    \/ \E partitions \in SUBSET SeekTPs : assign("t1", partitions)
    \/ \E tp \in SeekTPs, offset \in -1 .. MaxOffset : seek("t1", tp, offset)
    \/ \E offset \in Offsets : seek("t2", TopicPartition("b", 0), offset)
    \/ \E tp \in SeekTPs : position("t1", tp)
    \/ resolve_refreshed("t1")
    \/ resolve_updated("t1")
    \/ \E offset \in Offsets :
          commit("t1", "explicit", [p \in {TopicPartition("b", 0)} |-> offset])
    \/ \E ok \in BOOLEAN : commit_done("t1", ok)
    \/ \E tp \in SeekTPs : fetch_arrive(tp)

SpecSeek == InitSeek /\ [][NextSeek]_vars

\* Committed offsets: one task starts the consumer, assigns, seeks, commits,
\* asks for committed offsets and seeks to them, while the group rebalances.
CommittedTPs == { TopicPartition("a", 0), TopicPartition("b", 0) }

InitCommitted == InitWith({{}, {"a", "b"}}, {None, Group}, {"earliest"}, {1}, {"0.9"})

NextCommitted ==
    \/ start("t1")
    \/ \E ok \in BOOLEAN : start_bootstrapped("t1", ok)
    \/ \E partitions \in SUBSET CommittedTPs : start_joined("t1", partitions)
    \/ start_metadata_updated("t1")
    \/ \E partitions \in SUBSET CommittedTPs : assign("t1", partitions)
    \/ \E tp \in CommittedTPs, offset \in Offsets : seek("t1", tp, offset)
    \/ \E tp \in CommittedTPs, offset \in Offsets :
          commit("t1", "explicit", [p \in {tp} |-> offset])
    \/ commit_done("t1", TRUE)
    \/ \E tp \in CommittedTPs : committed("t1", tp)
    \/ \E partitions \in {<< >>, <<TopicPartition("b", 0)>>,
                          <<TopicPartition("b", 0), TopicPartition("a", 0)>>} :
          seek_to_committed("t1", partitions)
    \/ committed_refreshed("t1")
    \/ committed_fetched("t1")
    \/ \E partitions \in SUBSET CommittedTPs : rebalance(partitions)

SpecCommitted == InitCommitted /\ [][NextCommitted]_vars

\* Position resolution: one task starts the consumer, assigns, commits and
\* asks for positions and records under each reset policy; the other seeks
\* meanwhile; records arrive in the Fetcher.
ResolveTPs == { TopicPartition("a", 0), TopicPartition("b", 0) }

InitResolve == InitWith({{}}, {None, Group}, {"earliest", "latest", "none"}, {1}, {"0.9"})

NextResolve ==
    \/ start("t1")
    \/ \E ok \in BOOLEAN : start_bootstrapped("t1", ok)
    \/ start_joined("t1", {})
    \/ \E partitions \in SUBSET ResolveTPs : assign("t1", partitions)
    \/ \E offset \in Offsets :
          commit("t1", "explicit", [p \in {TopicPartition("b", 0)} |-> offset])
    \/ commit_done("t1", TRUE)
    \/ \E tp \in ResolveTPs : position("t1", tp)
    \/ getone("t1", {})
    \/ getone_wake("t1")
    \/ getmany("t1", {}, 0)
    \/ getmany_wake("t1")
    \/ tick
    \/ resolve_refreshed("t1")
    \/ resolve_updated("t1")
    \/ seek("t2", TopicPartition("b", 0), 0)
    \/ \E tp \in ResolveTPs : fetch_arrive(tp)

SpecResolve == InitResolve /\ [][NextResolve]_vars

\* Startup: one task subscribes, unsubscribes, assigns and starts the consumer,
\* with and without constructor topics and a group id.
InitStart == InitWith(SUBSET Topics, {None, Group}, {"latest"}, {1}, {"auto", "0.9"})

NextStart ==
    \/ \E kind \in {"topics", "pattern"}, topics \in (SUBSET Topics) \ {{}} :
          subscribe("t1", kind, topics)
    \/ unsubscribe("t1")
    \/ \E partitions \in SUBSET TPs : assign("t1", partitions)
    \/ start("t1")
    \/ \E ok \in BOOLEAN : start_bootstrapped("t1", ok)
    \/ \E v \in BrokerVersions : start_version_checked("t1", v)
    \/ \E partitions \in SUBSET TPs : start_joined("t1", partitions)
    \/ start_metadata_updated("t1")

SpecStart == InitStart /\ [][NextStart]_vars

\* Polling in a group: one task starts a subscribed consumer and polls with
\* getone() and getmany(); the group rebalances, records arrive, and the other
\* task unsubscribes and stops the consumer meanwhile.
GetoneTPs == { TopicPartition("a", 0), TopicPartition("b", 0) }

InitGetone == InitWith({{"a", "b"}}, {Group}, {"earliest"}, {1}, {"0.9"})

NextGetone ==
    \/ start("t1")
    \/ \E ok \in BOOLEAN : start_bootstrapped("t1", ok)
    \/ \E partitions \in SUBSET GetoneTPs : start_joined("t1", partitions)
    \/ getone("t1", {})
    \/ getone_wake("t1")
    \/ \E timeout \in {0, 1} : getmany("t1", {}, timeout)
    \/ getmany_wake("t1")
    \/ tick
    \/ resolve_refreshed("t1")
    \/ resolve_updated("t1")
    \/ \E partitions \in SUBSET GetoneTPs : rebalance(partitions)
    \/ \E tp \in GetoneTPs : fetch_arrive(tp)
    \/ unsubscribe("t2")
    \/ stop("t2")
    \/ \E ok \in BOOLEAN : stop_resume("t2", ok)

SpecGetone == InitGetone /\ [][NextGetone]_vars

(***************************************************************************)
(* Claims                                                                  *)
(***************************************************************************)

\* C1, mode exclusivity: a subscribe() made in user-assigned mode and an
\* assign() made in a topic or pattern subscription mode raise
\* IllegalStateError, and the failed call leaves the subscription mode, the
\* assigned partition map and the client's topic list as they were.
C1_ModeExclusivity ==
    [][ /\ (last'.op = "subscribe" /\ mode = "USER_ASSIGNED") =>
              /\ last'.res = "IllegalStateError"
              /\ UNCHANGED <<mode, assignment, client_topics>>
        /\ (last'.op = "assign" /\ mode \in {"AUTO_TOPICS", "AUTO_PATTERN"}) =>
              /\ last'.res = "IllegalStateError"
              /\ UNCHANGED <<mode, assignment, client_topics>> ]_vars

\* A subscribe() has just failed on a consumer whose user assignment and client
\* topic list are non-empty.
C1_Witness ==
    /\ last.op = "subscribe" /\ last.res = "IllegalStateError"
    /\ mode = "USER_ASSIGNED"
    /\ assignment # << >>
    /\ client_topics # {}

\* C2, stop() is idempotent: no collaborator's close() is invoked twice, and a
\* stop() called after an earlier stop() (one that has invoked a close) invokes
\* no collaborator and changes no state.
C2_StopIdempotent ==
    [][ /\ \A c \in Collaborators : closes'[c].invoked <= 1
        /\ (/\ last'.op = "stop" /\ last'.at = "call"
            /\ \E c \in Collaborators : closes[c].invoked > 0) =>
              /\ last'.calls = {}
              /\ last'.res = "ok"
              /\ UNCHANGED <<sub_vars, client_topics, cfg_vars, life_vars,
                             world_vars, task>> ]_vars

\* A second stop() has just returned at once, after a first one closed the
\* coordinator, the fetcher and the client.
C2_Witness ==
    /\ last.op = "stop" /\ last.at = "call" /\ last.res = "ok"
    /\ \A c \in Collaborators : closes[c].completed = 1

\* C3, stop() is best-effort: once no stop() is running any more, a close of
\* the coordinator that was attempted has been followed by an attempt to close
\* the fetcher, and that by an attempt to close the client, whether or not a
\* close failed.
C3_StopBestEffort ==
    (closed /\ \A t \in Tasks : task[t].op # "stop") =>
        /\ closes["coordinator"].invoked > 0 => closes["fetcher"].invoked > 0
        /\ closes["fetcher"].invoked > 0 => closes["client"].invoked > 0

\* C4, getmany(timeout_ms=0) returns at once: a call with timeout 0 that found
\* every position resolved is never suspended in the poll-interval sleep.
C4_ZeroTimeoutNoSuspension ==
    \A t \in Tasks :
        (task[t].op = "getmany" /\ task[t].timeout = 0 /\ task[t].partitions = {})
            => task[t].pc # "sleep"

\* A step of getmany() on task t that resumes from its sleep.
C5_WakeStep(t) ==
    /\ task[t].op = "getmany" /\ task[t].pc = "sleep"
    /\ last'.op = "getmany" /\ last'.task = t /\ last'.at = "sleep"

C6_RecordBeforeDeadline ==
    [][ \A t \in Tasks :
          (task[t].op = "getmany" /\ last'.op = "getmany" /\ last'.task = t) =>
             /\ (last'.res = "ok" /\ last'.val.records = {}) =>
                   ~ \E tp \in FetchedRecords(assignment, task[t].req) :
                        buffered[tp] < task[t].start_time + task[t].timeout
             /\ (last'.res = "suspended" /\ task'[t].pc = "sleep") =>
                   { tp \in DOMAIN buffered' :
                        /\ tp \in DOMAIN assignment'
                        /\ assignment'[tp].position # None
                        /\ (task[t].req = {} \/ tp \in task[t].req) } = {} ]_vars

\* C7, commit() commits the snapshot: a commit() without offsets hands
\* commit_offsets() the positions of the partitions as they are at the call, and
\* when the write is done the broker holds exactly those, whatever seeks,
\* rebalances and assignments happened while it was in flight.
C7_CommitSnapshot ==
    [][ \A t \in Tasks :
          /\ (/\ last'.op = "commit" /\ last'.task = t /\ last'.at = "call"
              /\ last'.res = "suspended" /\ task'[t].kind = "default") =>
                /\ "coordinator.commit_offsets" \in last'.calls
                /\ DOMAIN task'[t].offsets =
                      { tp \in DOMAIN assignment : assignment[tp].position # None }
                /\ \A tp \in DOMAIN task'[t].offsets :
                      Some(task'[t].offsets[tp]) = assignment[tp].position
          /\ (/\ task[t].op = "commit" /\ task[t].kind = "default"
              /\ last'.op = "commit" /\ last'.task = t /\ last'.res = "ok") =>
                \A tp \in TPs :
                   remote_committed'[tp] =
                      IF tp \in DOMAIN task[t].at_call /\ task[t].at_call[tp] # None
                      THEN task[t].at_call[tp]
                      ELSE remote_committed[tp] ]_vars

\* A commit() without offsets is done, and the position of a partition it
\* committed is no longer the one that was committed.
C7_Witness ==
    /\ last.op = "commit" /\ last.at = "commit" /\ last.res = "ok"
    /\ last.val = "default"
    /\ \E tp \in DOMAIN assignment :
          /\ remote_committed[tp] # None
          /\ assignment[tp].position # None
          /\ assignment[tp].position # remote_committed[tp]

\* C8, commit() needs a group id: on a consumer without one every commit()
\* raises AssertionError at the call, invokes no collaborator and changes
\* neither the partitions' state nor the offsets on the broker.
C8_CommitNeedsGroup ==
    [][ (last'.op = "commit" /\ last'.at = "call" /\ group_id = None) =>
          /\ last'.res = "AssertionError"
          /\ last'.calls = {}
          /\ UNCHANGED <<assignment, remote_committed, task>> ]_vars

\* A commit() has just failed on a started consumer without a group id that
\* has a partition with a position.
C8_Witness ==
    /\ last.op = "commit" /\ last.at = "call" /\ last.res = "AssertionError"
    /\ group_id = None
    /\ coordinator
    /\ \E tp \in DOMAIN assignment : assignment[tp].position # None

\* C9, seek() sets the position: a seek(p, k) with k >= 0 on an assigned
\* partition makes k the position of p in that step, and a position(p) called
\* next returns k at once; neither invokes a collaborator.
C9_SeekSetsPosition ==
    [][ /\ (last'.op = "seek" /\ last'.val[2] >= 0 /\ last'.val[1] \in DOMAIN assignment) =>
              /\ last'.res = "ok"
              /\ last'.calls = {}
              /\ last'.val[1] \in DOMAIN assignment'
              /\ assignment'[last'.val[1]].position = Some(last'.val[2])
        /\ (/\ last.op = "seek" /\ last.res = "ok"
            /\ last'.op = "position" /\ last'.at = "call"
            /\ last'.val[1] = last.val[1]) =>
              /\ last'.res = "ok"
              /\ last'.val[2] = Some(last.val[2])
              /\ last'.calls = {}
              /\ UNCHANGED <<assignment, task>> ]_vars

\* position(p) has just returned 0 at once for a partition whose committed
\* offset is unknown: only a seek(p, 0) gives that position.
C9_Witness ==
    /\ last.op = "position" /\ last.at = "call" /\ last.res = "ok"
    /\ last.val[2] = Some(0)
    /\ assignment[last.val[1]].committed = None

\* C10, seek() rejects a negative offset and an unassigned partition: the call
\* raises AssertionError and the position, committed offset and highwater of
\* every partition stay as they were.
C10_SeekRejects ==
    [][ (last'.op = "seek" /\ (last'.val[2] < 0 \/ last'.val[1] \notin DOMAIN assignment)) =>
          /\ last'.res = "AssertionError"
          /\ UNCHANGED assignment ]_vars

\* A seek to -1 has just failed on an assigned partition whose position,
\* committed offset and highwater are all known.
C10_Witness ==
    /\ last.op = "seek" /\ last.res = "AssertionError"
    /\ last.val[2] = 0 - 1
    /\ last.val[1] \in DOMAIN assignment
    /\ assignment[last.val[1]].position # None
    /\ assignment[last.val[1]].committed # None
    /\ assignment[last.val[1]].highwater # None

\* C11, seek_to_committed() seeks only to positive committed offsets: a step of
\* seek_to_committed() changes the position of a partition only to the offset
\* that committed() returned for it, and only if that offset is > 0; and of the
\* partitions the step has dealt with, one whose committed offset is > 0 has
\* that offset as its position, and one whose committed offset is 0 or unknown
\* has the position it had.
C11_SeekToCommittedPositive ==
    [][ last'.op = "seek_to_committed" =>
          /\ DOMAIN assignment' = DOMAIN assignment
          /\ \A tp \in DOMAIN assignment :
                assignment'[tp].position # assignment[tp].position =>
                   \E i \in DOMAIN last'.val :
                      /\ last'.val[i].tp = tp
                      /\ last'.val[i].c # None
                      /\ Val(last'.val[i].c) > 0
                      /\ assignment'[tp].position = last'.val[i].c
          /\ \A i \in DOMAIN last'.val :
                LET tp == last'.val[i].tp
                    c == last'.val[i].c IN
                tp \in DOMAIN assignment =>
                   IF c # None /\ Val(c) > 0
                   THEN assignment'[tp].position = c
                   ELSE assignment'[tp].position = assignment[tp].position ]_vars

\* A seek_to_committed() is over that has dealt with a partition whose committed
\* offset is 0 and whose position is another offset, and with a second
\* partition, which is now at its positive committed offset.
C11_Witness ==
    /\ last.op = "seek_to_committed" /\ last.res = "ok"
    /\ \E i, j \in DOMAIN last.val :
          /\ last.val[i].tp \in DOMAIN assignment
          /\ last.val[j].tp \in DOMAIN assignment
          /\ last.val[i].c = Some(0)
          /\ assignment[last.val[i].tp].position \notin {None, Some(0)}
          /\ last.val[j].c \notin {None, Some(0)}
          /\ assignment[last.val[j].tp].position = last.val[j].c

\* What C12 says of a committed(p) call on a started consumer: at the call, on
\* an assigned partition, it invokes refresh_committed_offsets() alone if the
\* cached offset is unknown and nothing if it is known, which it then returns;
\* when the refresh is over it invokes nothing more and returns the cached
\* offset, None if the group has no commit for p.
C12_CommittedSteps ==
    /\ (/\ last'.op = "committed" /\ last'.at = "call"
        /\ last'.val[1] \in DOMAIN assignment) =>
          IF assignment[last'.val[1]].committed = None
          THEN /\ last'.res = "suspended"
               /\ last'.calls = {"coordinator.refresh_committed_offsets"}
          ELSE /\ last'.res = "ok"
               /\ last'.calls = {}
               /\ last'.val[2] = assignment[last'.val[1]].committed
    /\ (/\ last'.op = "committed" /\ last'.at = "committed_refresh"
        /\ last'.val[1] \in DOMAIN assignment) =>
          /\ last'.res = "ok"
          /\ last'.calls = {}
          /\ last'.val[2] = remote_committed[last'.val[1]]
          /\ \A t \in Tasks : task[t].op = "committed" => task'[t] = Idle

\* C12 as stated, for every started consumer: committed(p) of an assigned
\* partition refreshes exactly once if the cached offset is unknown and not at
\* all if it is known, never fetches out of band, and returns None without a
\* prior commit.
C12_CommittedAsStated ==
    [][ coordinator => C12_CommittedSteps ]_vars

\* C12, for a consumer with a group id: committed(p) of an assigned partition
\* refreshes exactly once if the cached offset is unknown and not at all if it
\* is known, never fetches out of band, and returns None without a prior commit.
C12_CommittedRefreshOnce ==
    [][ (coordinator /\ group_id # None) => C12_CommittedSteps ]_vars

\* committed(p) has just returned None for an assigned partition after its one
\* refresh, the group having a commit for another partition.
C12_Witness ==
    /\ last.op = "committed" /\ last.at = "committed_refresh" /\ last.res = "ok"
    /\ last.val[2] = None
    /\ last.val[1] \in DOMAIN assignment
    /\ \E tp \in DOMAIN assignment : assignment[tp].committed # None

C14_ResolutionErrorPropagates ==
    [][ \A t \in Tasks :
          (/\ task[t].pc = "update"
           /\ last'.task = t /\ last'.at = "update" /\ last'.op = task[t].op
           /\ NoOffsetForPartition(assignment, task[t].partitions)) =>
              /\ last'.res = "NoOffsetForPartitionError"
              /\ last'.calls = {}
              /\ task'[t] = Idle
              /\ UNCHANGED <<assignment, buffered>> ]_vars

\* A getone() has just ended with the unresolved-position error, on a consumer
\* in a group whose other partition has a committed offset.
C14_Witness ==
    /\ last.op = "getone" /\ last.res = "NoOffsetForPartitionError"
    /\ task[last.task] = Idle
    /\ group_id # None
    /\ \E tp \in DOMAIN assignment : assignment[tp].committed # None

\* C15, start() without a group id assigns the partitions of the subscribed
\* topics: when the start() of a consumer with a topic subscription and no
\* group id is over, the consumer is in user-assigned mode, has no topic
\* subscription, and is assigned exactly the partitions that the metadata
\* lists for the topics it was subscribed to.
C15_StartAssignsSubscribed ==
    [][ (/\ last'.op = "start" /\ last'.res = "ok"
         /\ group_id = None /\ mode = "AUTO_TOPICS") =>
           /\ mode' = "USER_ASSIGNED"
           /\ subscription' = {}
           /\ DOMAIN assignment' =
                 UNION { { TopicPartition(topic, p_id) :
                             p_id \in partitions_for_topic(topic) } :
                         topic \in subscription } ]_vars

\* C16, assign() replaces the assignment: after an assign(P) that succeeds the
\* assigned partitions are exactly P, each without a position; and a partition
\* without a position gets one only by a seek to it or by a resolution that
\* was asked for it.
C16_AssignReplaces ==
    [][ /\ (last'.op = "assign" /\ last'.res = "ok") =>
              /\ DOMAIN assignment' = last'.val
              /\ \A tp \in last'.val : assignment'[tp].position = None
        /\ \A tp \in DOMAIN assignment \cap DOMAIN assignment' :
              (assignment[tp].position = None /\ assignment'[tp].position # None) =>
                 \/ last'.op = "seek" /\ last'.res = "ok" /\ last'.val[1] = tp
                 \/ /\ last'.at = "update"
                    /\ task[last'.task].pc = "update"
                    /\ tp \in task[last'.task].partitions ]_vars

\* An assign() of one partition has just succeeded on a started consumer whose
\* group has a committed offset for it: the partition has no position.
C16_Witness ==
    /\ last.op = "assign" /\ last.res = "ok"
    /\ last.val = {TopicPartition("b", 0)}
    /\ fetcher
    /\ remote_committed[TopicPartition("b", 0)] # None
    /\ assignment[TopicPartition("b", 0)].position = None

\* C17, unsubscribe() always succeeds: from every mode it ends in the
\* unsubscribed mode with no assigned partition and an empty client topic list,
\* and a subscribe() (with topics or a pattern) or an assign() called next is
\* accepted.
C17_UnsubscribeResets ==
    [][ /\ last'.op = "unsubscribe" =>
              /\ last'.res = "ok"
              /\ mode' = "UNSUBSCRIBED"
              /\ DOMAIN assignment' = {}
              /\ client_topics' = {}
        /\ (/\ last.op = "unsubscribe"
            /\ \/ last'.op = "assign"
               \/ last'.op = "subscribe" /\ last'.val # "nothing") =>
              last'.res = "ok" ]_vars

\* An unsubscribe() has just been made on a started consumer that was
\* constructed with topics.
C17_Witness ==
    /\ last.op = "unsubscribe" /\ last.res = "ok"
    /\ topics_arg # {}
    /\ fetcher
    /\ mode = "UNSUBSCRIBED"

\* C18, stop() does not interrupt getone(): a step of stop() leaves a getone()
\* that is under way where it is; a getone() returns only with a record that
\* the Fetcher handed over in that step; and a getone() that wakes up from a
\* sleep, before or after the close, returns a record or is suspended again,
\* and never raises or gives up.
C18_GetoneNotInterrupted ==
    [][ /\ \A t \in Tasks :
              (task[t].op = "getone" /\ last'.op = "stop") => task'[t] = task[t]
        /\ (last'.op = "getone" /\ last'.res = "ok") =>
              /\ last'.val # None
              /\ "fetcher.next_record" \in last'.calls
        /\ (last'.op = "getone" /\ last'.at \in {"wait", "asleep"}) =>
              last'.res \in {"ok", "suspended"} ]_vars

\* The consumer is closed, its three collaborators with it, and a getone() that
\* was under way has since woken up, found no record and gone to sleep again.
C18_Witness ==
    /\ closed
    /\ \A c \in Collaborators : closes[c].completed = 1
    /\ last.op = "getone" /\ last.at = "asleep" /\ last.res = "suspended"
    /\ task[last.task].op = "getone"
    /\ "fetcher.next_record" \in last.calls

\* C19, the Fetcher is queried with every position resolved: when a getone() or
\* a getmany() has just asked the Fetcher for buffered records, every assigned
\* partition has a position.
C19_QueryAllResolved ==
    (/\ last.op \in {"getone", "getmany"}
     /\ last.calls \cap {"fetcher.next_record", "fetcher.fetched_records"} # {}) =>
        \A tp \in DOMAIN assignment : assignment[tp].position # None

\* C20, getone() waits for an assignment: when a getone() has just invoked the
\* refresh of the committed offsets, the resolution of positions or the
\* Fetcher's next_record, some partition is assigned.
C20_GetoneWaitsForAssignment ==
    (/\ last.op = "getone"
     /\ last.calls \cap {"coordinator.refresh_committed_offsets",
                         "fetcher.update_fetch_positions",
                         "fetcher.next_record"} # {}) =>
        DOMAIN assignment # {}

\* The calls a GroupCoordinator receives from the consumer.
C21_CoordinatorCalls ==
    { "coordinator.refresh_committed_offsets", "coordinator.fetch_committed_offsets",
      "coordinator.commit_offsets", "coordinator.ensure_active_group",
      "coordinator.close" }

\* C21, one refresh per resolution, before the Fetcher: in every step of a
\* position(), getone() or getmany(), (a) refresh_committed_offsets() is invoked
\* only on a consumer with a group id, as the only call of the step and at the
\* start of a resolution, never again on resuming from the refresh or from the
\* Fetcher's update; (b) on a consumer with a group id update_fetch_positions()
\* is invoked only in the step that resumes from the completed refresh, when
\* the cached committed offset of every assigned partition is the group's; (c)
\* on a consumer without a group id update_fetch_positions() is invoked without
\* any refresh before it and no step invokes the GroupCoordinator.
C21_OneRefreshBeforeUpdate ==
    [][ \A t \in Tasks :
          (last'.task = t /\ last'.op \in {"position", "getone", "getmany"}) =>
             /\ "coordinator.refresh_committed_offsets" \in last'.calls =>
                   /\ group_id # None
                   /\ last'.calls = {"coordinator.refresh_committed_offsets"}
                   /\ last'.at \notin {"refresh", "update"}
                   /\ task[t].pc \notin {"refresh", "update"}
                   /\ task'[t].pc = "refresh"
             /\ "fetcher.update_fetch_positions" \in last'.calls =>
                   /\ last'.calls = {"fetcher.update_fetch_positions"}
                   /\ task'[t].pc = "update"
                   /\ IF group_id # None
                      THEN /\ task[t].pc = "refresh" /\ last'.at = "refresh"
                           /\ \A tp \in DOMAIN assignment' :
                                 assignment'[tp].committed = remote_committed[tp]
                      ELSE task[t].pc \notin {"refresh", "update"}
             /\ group_id = None =>
                   /\ last'.calls \cap C21_CoordinatorCalls = {}
                   /\ task'[t].pc # "refresh" ]_vars

\* The refresh of a resolution on a consumer in a group has just completed and
\* update_fetch_positions() is invoked: two partitions are assigned, and the
\* committed offset of one of them came with the one refresh.
C21_Witness ==
    /\ group_id # None
    /\ last.at = "refresh" /\ last.calls = {"fetcher.update_fetch_positions"}
    /\ task[last.task].pc = "update"
    /\ Cardinality(DOMAIN assignment) = 2
    /\ \E tp \in DOMAIN assignment : assignment[tp].committed # None

\* The step invokes the close() of collaborator c and of no other.
C22_Begins(c) ==
    /\ closes'[c].invoked = closes[c].invoked + 1
    /\ \A d \in Collaborators \ {c} : closes'[d].invoked = closes[d].invoked
    /\ last'.calls = { IF c = "coordinator" THEN "coordinator.close"
                       ELSE IF c = "fetcher" THEN "fetcher.close" ELSE "client.close" }
    /\ last'.res = "suspended"

\* The step invokes no close().
C22_BeginsNone ==
    /\ \A d \in Collaborators : closes'[d].invoked = closes[d].invoked
    /\ last'.calls = {}

\* C22, stop() closes in order: a stop() that finds the consumer open sets the
\* closed flag and begins with the GroupCoordinator if one was constructed, else
\* with the Fetcher if one was constructed, else with the Client; the close of
\* the Fetcher (or, without one, of the Client) begins only in the step in which
\* the close of the GroupCoordinator completes, the close of the Client only in
\* the step in which the close of the Fetcher completes, and the completed close
\* of the Client ends the call; no close has begun while the flag is unset, and a
\* close that has begun after another collaborator's finds that one completed.
C22_StopOrder ==
    [][ last'.op = "stop" =>
          /\ (last'.at = "call" /\ ~closed) =>
                /\ closed'
                /\ IF coordinator THEN C22_Begins("coordinator")
                   ELSE IF fetcher THEN C22_Begins("fetcher")
                   ELSE C22_Begins("client")
          /\ (last'.at = "coordinator" /\ last'.res # "CloseError") =>
                /\ closes'["coordinator"].completed = closes["coordinator"].completed + 1
                /\ IF fetcher THEN C22_Begins("fetcher") ELSE C22_Begins("client")
          /\ (last'.at = "fetcher" /\ last'.res # "CloseError") =>
                /\ closes'["fetcher"].completed = closes["fetcher"].completed + 1
                /\ C22_Begins("client")
          /\ (last'.at = "client" /\ last'.res # "CloseError") =>
                /\ closes'["client"].completed = closes["client"].completed + 1
                /\ C22_BeginsNone
                /\ last'.res = "ok"
                /\ task'[last'.task] = Idle
          /\ last'.res = "CloseError" => C22_BeginsNone /\ UNCHANGED closes
          /\ \A c \in Collaborators : closes'[c].invoked > 0 => closed'
          /\ (closes'["coordinator"].invoked > 0 /\ closes'["fetcher"].invoked > 0) =>
                closes'["coordinator"].completed > 0
          /\ (closes'["fetcher"].invoked > 0 /\ closes'["client"].invoked > 0) =>
                closes'["fetcher"].completed > 0
          /\ (closes'["coordinator"].invoked > 0 /\ closes'["client"].invoked > 0) =>
                closes'["coordinator"].completed > 0 ]_vars

\* The stop() of a started consumer has just returned: the coordinator, the
\* fetcher and the client were closed, one after the other.
C22_Witness ==
    /\ last.op = "stop" /\ last.at = "client" /\ last.res = "ok"
    /\ fetcher /\ coordinator
    /\ \A c \in Collaborators : closes[c].invoked = 1 /\ closes[c].completed = 1

\* C23, position and committed are independent: a seek(p, k) that succeeds
\* leaves the same partitions assigned, changes of p nothing but the position,
\* which becomes k, changes no other partition's state and no commit of the
\* group; a seek() that fails changes no partition state; and no step of a
\* committed() call, the refresh of the cache and the lookup for an unassigned
\* partition included, changes the set of assigned partitions or the position
\* of any of them.
C23_PositionCommittedIndependent ==
    [][ /\ (last'.op = "seek" /\ last'.res = "ok") =>
              LET tp == last'.val[1] k == last'.val[2] IN
              /\ DOMAIN assignment' = DOMAIN assignment
              /\ tp \in DOMAIN assignment
              /\ assignment'[tp] = [assignment[tp] EXCEPT !.position = Some(k)]
              /\ assignment'[tp].committed = assignment[tp].committed
              /\ \A q \in DOMAIN assignment \ {tp} : assignment'[q] = assignment[q]
              /\ UNCHANGED remote_committed
        /\ (last'.op = "seek" /\ last'.res # "ok") =>
              UNCHANGED <<assignment, remote_committed>>
        /\ last'.op = "committed" =>
              /\ DOMAIN assignment' = DOMAIN assignment
              /\ \A q \in DOMAIN assignment :
                    assignment'[q].position = assignment[q].position
              /\ UNCHANGED remote_committed ]_vars

\* A committed() has just returned, after a refresh of the cache, a committed
\* offset of a partition whose position, set by a seek, is another offset, while
\* a second assigned partition has no position.
C23_Witness ==
    /\ last.op = "committed" /\ last.at = "committed_refresh" /\ last.res = "ok"
    /\ last.val[2] # None
    /\ last.val[1] \in DOMAIN assignment
    /\ assignment[last.val[1]].position # None
    /\ assignment[last.val[1]].position # assignment[last.val[1]].committed
    /\ \E q \in DOMAIN assignment : assignment[q].position = None

\* C24, a stop() that returns has closed everything: in the step in which a
\* stop() call returns normally, the close of the Client has completed, and so
\* has the close of the Fetcher and of the GroupCoordinator if the consumer has
\* constructed them.
C24_StopClosesAll ==
    [][ (last'.op = "stop" /\ last'.res = "ok") =>
          /\ closes'["client"].completed > 0
          /\ fetcher' => closes'["fetcher"].completed > 0
          /\ coordinator' => closes'["coordinator"].completed > 0 ]_vars

\* C25, start() constructs once: the consumer never has constructed more than
\* one Fetcher or more than one GroupCoordinator, and a start() that comes back
\* from bootstrap() when an earlier start() has converted the API version to a
\* tuple fails in that step and constructs nothing.
C25_ConstructsOnce ==
    [][ /\ constructed'.fetcher <= 1
        /\ constructed'.coordinator <= 1
        /\ (/\ last'.op = "start" /\ last'.at = "bootstrap"
            /\ api_version.kind = "tuple") =>
              /\ last'.res \in {"AttributeError", "ConnectionError"}
              /\ last'.calls = {}
              /\ UNCHANGED <<fetcher, coordinator, constructed>> ]_vars

====
